---- MODULE Spec2Model ----
(***************************************************************************)
(* Model of the portfolio accounting engine of StockTracker                *)
(* (src/portfolio.py and src/profit_breakdown.py, with the callers in      *)
(* src/app.py and src/profit_analysis.py and the market data provider of   *)
(* src/stock_data.py as an input).                                         *)
(*                                                                         *)
(* Numbers.  Every number the program handles is a Python float.  The      *)
(* model represents a number as an exact fraction <<n, d>> in lowest       *)
(* terms with d > 0, so two numbers are equal exactly when their tuples    *)
(* are equal.  Rounding of IEEE doubles is outside the model.  None is     *)
(* the empty tuple.                                                        *)
(*                                                                         *)
(* Ledger files.  A JSON ledger is a sequence of <<symbol, entries>>       *)
(* pairs in file order (Python dicts iterate in insertion order); an       *)
(* entry is a sequence of strings, <<action, date, shares, price>> when    *)
(* well formed.                                                            *)
(***************************************************************************)
EXTENDS Integers, Sequences, FiniteSets, TLC

VARIABLES
    stocks,            \* Portfolio.stocks: symbol -> holding record
    transactions,      \* Portfolio.transactions: symbol -> list of raw entries
    realized_profits,  \* Portfolio.realized_profits: symbol -> number
    op,                \* the operation that ran last
    ret,               \* what it returned
    file,              \* the ledger file handed to import_from_json
    adds,              \* how many times add_stock has run
    pc,                \* where the request running import_from_json stands
    todo,              \* the items of data.items() it has not finished
    local,             \* its replay locals for the symbol at hand
    begun,             \* the three maps as they were when it was called
    imports,           \* how many import requests have been served
    observed,          \* what the last profit callback read, and when
    quotes,            \* what the provider had for the symbols of the last query
    result             \* what the last query returned

conc == <<pc, todo, local, begun, imports, observed>>
qry == <<quotes, result>>
vars == <<stocks, transactions, realized_profits, op, ret, file, adds, conc, qry>>

-----------------------------------------------------------------------------
(* Bounds of the model *)

\* numerals 1..MaxQty occur as shares and prices in ledgers and arguments
MaxQty == 2
\* most entries a ledger file of the replay specification holds, in all
MaxTx == 3
\* add_stock is not offered beyond this many shares held in all
MaxHeld == 3
\* add_stock is offered this many times (each call can make a new average cost)
MaxAdds == 2
\* import requests served when requests run on threads of their own
MaxImports == 2

Symbols == {"AAPL", "MSFT"}
Dates == {"2024-01-02"}

-----------------------------------------------------------------------------
(* Numbers: exact fractions *)

None == <<>>

Abs(n) == IF n < 0 THEN -n ELSE n

RECURSIVE GCD(_, _)
GCD(a, b) == IF b = 0 THEN a ELSE GCD(b, a % b)

\* the fraction n/d (d # 0) in lowest terms with a positive denominator
Frac(n, d) ==
    LET s == IF d < 0 THEN -1 ELSE 1
        g == GCD(Abs(n), Abs(d))
    IN  <<(s * n) \div g, (s * d) \div g>>

Num(n) == <<n, 1>>
Zero == Num(0)

Plus(a, b) == Frac(a[1] * b[2] + b[1] * a[2], a[2] * b[2])
Minus(a, b) == Frac(a[1] * b[2] - b[1] * a[2], a[2] * b[2])
Times(a, b) == Frac(a[1] * b[1], a[2] * b[2])
Div(a, b) == Frac(a[1] * b[2], a[2] * b[1])
Less(a, b) == a[1] * b[2] < b[1] * a[2]
Geq(a, b) == ~Less(a, b)
Gt(a, b) == Less(b, a)
Leq(a, b) == ~Less(b, a)

-----------------------------------------------------------------------------
(* Python built-ins used on ledger entries *)

\* float(s): the numerals the model knows; any other text raises ValueError
Numerals == 0 .. (MaxQty + 1)
FloatRaises(s) == \A n \in Numerals : ToString(n) # s
float(s) == Num(CHOOSE n \in Numerals : ToString(n) = s)

\* str.lower() on the action strings that occur
lower(a) ==
    CASE a \in {"Bought", "BOUGHT", "bought"} -> "bought"
      [] a \in {"Sold", "SOLD", "sold"} -> "sold"
      [] OTHER -> a

\* datetime.strptime(date, "%Y-%m-%d") on the dates that occur, as a day count
strptime(date) ==
    CASE date = "2024-01-02" -> 2
      [] date = "2024-01-03" -> 3

\* d[k] = v on a dict
Put(d, k, v) == [x \in (DOMAIN d) \cup {k} |-> IF x = k THEN v ELSE d[x]]
\* del d[k]
Del(d, k) == [x \in (DOMAIN d) \ {k} |-> d[x]]
EmptyDict == [x \in {} |-> None]


-----------------------------------------------------------------------------
(* The market data provider and the value of a query *)

\* get_stock_data returns an empty frame when the provider has nothing or
\* raises; of a frame with rows the queries read the last Close only
NoData == <<>>
Closes == {Num(1), Num(MaxQty)}
Quote == {NoData} \cup Closes

\* the answers by period; a symbol that was not asked for has NoData.  Of a
\* frame get_historical_performance reads more than the last row: past is
\* the Close of the row of the day before (the lowest price), NoData when the
\* frame of the symbol has no row for that day
Unasked == [s \in Symbols |-> NoData]
PastAnswers(S) ==
    {q \in [Symbols -> {NoData, Num(1)}] : \A s \in Symbols \ S : q[s] = NoData}
NoQuotes == [d5 |-> Unasked, y1 |-> Unasked, past |-> Unasked]
Answers(S) == {q \in [Symbols -> Quote] : \A s \in Symbols \ S : q[s] = NoData}

\* a query returns a value, returns None, or raises
ReturnsNone == [raised |-> FALSE, none |-> TRUE, value |-> None]
Returns(v) == [raised |-> FALSE, none |-> FALSE, value |-> v]
Raises == [raised |-> TRUE, none |-> FALSE, value |-> None]
NoResult == ReturnsNone

InitQuery == quotes = NoQuotes /\ result = NoResult

\* an operation that is no query leaves no query value behind
NoQuery == quotes' = NoQuotes /\ result' = NoResult

-----------------------------------------------------------------------------
(* Cost-basis replay of one symbol's list (import_from_json, inner loop) *)

\* the locals the loop keeps for one symbol (the list buy_transactions is
\* appended to and never read; it is left out)
ReplayStart ==
    [total_shares |-> Zero, total_cost |-> Zero, total_realized_profit |-> Zero,
     running_avg_cost |-> Zero, shares_owned |-> Zero]

\* an entry on which unpacking or float() raises
EntryRaises(e) == Len(e) # 4 \/ FloatRaises(e[3]) \/ FloatRaises(e[4])
ListRaises(txs) == \E i \in 1 .. Len(txs) : EntryRaises(txs[i])

\* a buy that averages the two prices without their weights
BuyStepUnweighted(st, shares, price) ==
    LET avg == IF Gt(st.shares_owned, Zero)
               THEN Div(Plus(st.running_avg_cost, price), Num(2))
               ELSE price
    IN  [st EXCEPT !.running_avg_cost = avg,
                   !.shares_owned = Plus(@, shares),
                   !.total_shares = Plus(@, shares),
                   !.total_cost = Plus(@, Times(shares, price))]

\* a buy that takes the average from total_cost, the cost of all purchases
\* so far, sold or not
BuyStepAveragesTotalCost(st, shares, price) ==
    [st EXCEPT !.running_avg_cost =
                   Div(Plus(st.total_cost, Times(shares, price)),
                       Plus(st.total_shares, shares)),
               !.shares_owned = Plus(@, shares),
               !.total_shares = Plus(@, shares),
               !.total_cost = Plus(@, Times(shares, price))]

\* action "bought"
BuyStep(st, shares, price) ==
    LET avg == IF Gt(st.shares_owned, Zero)
               THEN Div(Plus(Times(st.shares_owned, st.running_avg_cost),
                             Times(shares, price)),
                        Plus(st.shares_owned, shares))
               ELSE price
    IN  [st EXCEPT !.running_avg_cost = avg,
                   !.shares_owned = Plus(@, shares),
                   !.total_shares = Plus(@, shares),
                   !.total_cost = Plus(@, Times(shares, price))]

\* a sale that takes the proceeds out of the cost of the shares left, as a
\* buy of a negative quantity would
SellStepReaverages(st, shares, price) ==
    IF Geq(st.shares_owned, shares)
    THEN LET cost_basis == Times(st.running_avg_cost, shares)
             sale_proceeds == Times(price, shares)
             realized_profit == Minus(sale_proceeds, cost_basis)
             left == Minus(st.shares_owned, shares)
         IN  [st EXCEPT !.total_realized_profit = Plus(@, realized_profit),
                        !.running_avg_cost =
                            IF left = Zero THEN @
                            ELSE Div(Minus(Times(st.shares_owned, @), sale_proceeds), left),
                        !.shares_owned = left,
                        !.total_shares = Minus(@, shares)]
    ELSE st

\* a sale without the guard on the shares owned
SellStepUnguarded(st, shares, price) ==
    LET cost_basis == Times(st.running_avg_cost, shares)
        sale_proceeds == Times(price, shares)
        realized_profit == Minus(sale_proceeds, cost_basis)
    IN  [st EXCEPT !.total_realized_profit = Plus(@, realized_profit),
                   !.shares_owned = Minus(@, shares),
                   !.total_shares = Minus(@, shares)]

\* action "sold": an oversell prints a warning and changes nothing
SellStep(st, shares, price) ==
    IF Geq(st.shares_owned, shares)
    THEN LET cost_basis == Times(st.running_avg_cost, shares)
             sale_proceeds == Times(price, shares)
             realized_profit == Minus(sale_proceeds, cost_basis)
         IN  [st EXCEPT !.total_realized_profit = Plus(@, realized_profit),
                        !.shares_owned = Minus(@, shares),
                        !.total_shares = Minus(@, shares)]
    ELSE st

\* one well-formed entry; an action that is neither bought nor sold falls
\* through both branches
ReplayStep(st, e) ==
    LET shares == float(e[3])
        price == float(e[4])
    IN  CASE lower(e[1]) = "bought" -> BuyStep(st, shares, price)
          [] lower(e[1]) = "sold" -> SellStep(st, shares, price)
          [] OTHER -> st

RECURSIVE ReplayFrom(_, _)
ReplayFrom(st, txs) ==
    IF txs = <<>> THEN st ELSE ReplayFrom(ReplayStep(st, Head(txs)), Tail(txs))

\* a replay that first puts the list in the order of its dates (a stable sort)
RECURSIVE InsertOldestFirst(_, _)
InsertOldestFirst(e, txs) ==
    IF txs = <<>> THEN <<e>>
    ELSE IF strptime(e[2]) < strptime(Head(txs)[2]) THEN <<e>> \o txs
    ELSE <<Head(txs)>> \o InsertOldestFirst(e, Tail(txs))

RECURSIVE SortOldestFirst(_)
SortOldestFirst(txs) ==
    IF txs = <<>> THEN <<>>
    ELSE InsertOldestFirst(txs[Len(txs)], SortOldestFirst(SubSeq(txs, 1, Len(txs) - 1)))

ReplayByDate(txs) == ReplayFrom(ReplayStart, SortOldestFirst(txs))

Replay(txs) == ReplayFrom(ReplayStart, txs)

-----------------------------------------------------------------------------
(* import_from_json *)

Portfolio(s, t, r) == [stocks |-> s, transactions |-> t, realized_profits |-> r]
EmptyPortfolio == Portfolio(EmptyDict, EmptyDict, EmptyDict)

\* a store of the realized profit whatever its value
StoreRealizedAlways(rp, symbol, st) == Put(rp, symbol, st.total_realized_profit)

\* what is stored for a symbol once its list has been replayed
StoreRealized(rp, symbol, st) ==
    IF st.total_realized_profit # Zero
    THEN Put(rp, symbol, st.total_realized_profit)
    ELSE rp

\* a holding stored whether or not shares are left
StoreHoldingAlways(stk, symbol, st) ==
    Put(stk, symbol,
        [shares |-> st.total_shares,
         purchase_price |-> st.running_avg_cost,
         remaining_cost |-> Times(st.total_shares, st.running_avg_cost)])

StoreHolding(stk, symbol, st) ==
    IF Gt(st.total_shares, Zero)
    THEN Put(stk, symbol,
             [shares |-> st.total_shares,
              purchase_price |-> st.running_avg_cost,
              remaining_cost |-> Times(st.total_shares, st.running_avg_cost)])
    ELSE stk

\* the body of the loop over data.items() from the state P on; an entry that
\* raises ends the loop where it stands, with the symbol's list already stored
RECURSIVE ImportLoop(_, _)
ImportLoop(items, P) ==
    IF items = <<>>
    THEN [state |-> P, ret |-> "True"]
    ELSE LET symbol == Head(items)[1]
             txs == Head(items)[2]
             P1 == [P EXCEPT !.transactions = Put(@, symbol, txs)]
         IN  IF ListRaises(txs)
             THEN [state |-> P1, ret |-> "False"]
             ELSE LET st == Replay(txs)
                  IN  ImportLoop(Tail(items),
                          [P1 EXCEPT !.realized_profits = StoreRealized(@, symbol, st),
                                     !.stocks = StoreHolding(@, symbol, st)])

\* a clear that forgets realized_profits
ClearHoldingsAndLedger(P) == [EmptyPortfolio EXCEPT !.realized_profits = P.realized_profits]

\* the three maps as the call finds them are cleared once the file is read
ClearPortfolio(P) == EmptyPortfolio

ImportResult(f, P) ==
    IF ~f.readable
    THEN [state |-> P, ret |-> "False"]
    ELSE ImportLoop(f.items, ClearPortfolio(P))

Current == Portfolio(stocks, transactions, realized_profits)

import_from_json(f) ==
    LET r == ImportResult(f, Current)
    IN  /\ stocks' = r.state.stocks
        /\ transactions' = r.state.transactions
        /\ realized_profits' = r.state.realized_profits
        /\ op' = "import_from_json"
        /\ ret' = r.ret
        /\ file' = f
        /\ UNCHANGED <<adds, conc>>
    /\ NoQuery

-----------------------------------------------------------------------------
(* add_stock, remove_stock *)

\* a merge that takes the mean of the two prices, not weighted by shares
AddResultUnweighted(stk, symbol, shares, purchase_price) ==
    IF symbol \in DOMAIN stk
    THEN Put(stk, symbol,
             [shares |-> Plus(stk[symbol].shares, shares),
              purchase_price |->
                  IF purchase_price = None THEN stk[symbol].purchase_price
                  ELSE IF stk[symbol].purchase_price = None THEN purchase_price
                  ELSE Div(Plus(stk[symbol].purchase_price, purchase_price), Num(2))])
    ELSE Put(stk, symbol, [shares |-> shares, purchase_price |-> purchase_price])

\* a merge that takes the price of the latest purchase for the average cost
AddResultLatestPrice(stk, symbol, shares, purchase_price) ==
    IF symbol \in DOMAIN stk
    THEN Put(stk, symbol,
             [shares |-> Plus(stk[symbol].shares, shares),
              purchase_price |->
                  IF purchase_price = None THEN stk[symbol].purchase_price
                  ELSE purchase_price])
    ELSE Put(stk, symbol, [shares |-> shares, purchase_price |-> purchase_price])

AddResult(stk, symbol, shares, purchase_price) ==
    IF symbol \in DOMAIN stk
    THEN LET existing_shares == stk[symbol].shares
         IN  IF purchase_price # None
             THEN IF stk[symbol].purchase_price # None
                  THEN LET old_value == Times(existing_shares, stk[symbol].purchase_price)
                           new_value == Times(shares, purchase_price)
                           total_shares == Plus(existing_shares, shares)
                       IN  Put(stk, symbol,
                               [shares |-> total_shares,
                                purchase_price |-> Div(Plus(old_value, new_value), total_shares)])
                  ELSE Put(stk, symbol,
                           [shares |-> Plus(existing_shares, shares),
                            purchase_price |-> purchase_price])
             ELSE Put(stk, symbol,
                      [shares |-> Plus(existing_shares, shares),
                       purchase_price |-> stk[symbol].purchase_price])
    ELSE Put(stk, symbol, [shares |-> shares, purchase_price |-> purchase_price])

\* all shares held, over the symbols
RECURSIVE SumShares(_, _)
SumShares(stk, S) ==
    IF S = {} THEN Zero
    ELSE LET s == CHOOSE x \in S : TRUE
         IN  Plus(stk[s].shares, SumShares(stk, S \ {s}))
TotalHeld(stk) == SumShares(stk, DOMAIN stk)

\* an add that also enters the purchase in the ledger
add_stock_recording(symbol, shares, purchase_price) ==
    /\ adds < MaxAdds
    /\ Leq(Plus(TotalHeld(stocks), shares), Num(MaxHeld))
    /\ adds' = adds + 1
    /\ stocks' = AddResult(stocks, symbol, shares, purchase_price)
    /\ transactions' =
           Put(transactions, symbol,
               (IF symbol \in DOMAIN transactions THEN transactions[symbol] ELSE <<>>)
                   \o << <<"Bought", "", "1", "1">> >>)
    /\ op' = "add_stock"
    /\ ret' = "None"
    /\ UNCHANGED <<realized_profits, file, conc>>
    /\ NoQuery

add_stock(symbol, shares, purchase_price) ==
    /\ adds < MaxAdds
    /\ Leq(Plus(TotalHeld(stocks), shares), Num(MaxHeld))
    /\ adds' = adds + 1
    /\ stocks' = AddResult(stocks, symbol, shares, purchase_price)
    /\ op' = "add_stock"
    /\ ret' = "None"
    /\ UNCHANGED <<transactions, realized_profits, file, conc>>
    /\ NoQuery

\* a removal that deletes the holding only when no share count is given
RemoveResultKeepsEmpty(stk, symbol, shares) ==
    IF shares = None
    THEN Del(stk, symbol)
    ELSE [stk EXCEPT ![symbol].shares = Minus(@, shares)]

\* the holdings after remove_stock on a held symbol
RemoveResult(stk, symbol, shares) ==
    IF shares = None \/ Geq(shares, stk[symbol].shares)
    THEN Del(stk, symbol)
    ELSE LET left == [stk EXCEPT ![symbol].shares = Minus(@, shares)]
         IN  IF Leq(left[symbol].shares, Zero) THEN Del(left, symbol) ELSE left

\* a removal that also drops what the symbol has realized
remove_stock_forgetting(symbol, shares) ==
    /\ op' = "remove_stock"
    /\ IF symbol \notin DOMAIN stocks
       THEN /\ ret' = "False"
            /\ stocks' = stocks
            /\ realized_profits' = realized_profits
       ELSE /\ ret' = "True"
            /\ stocks' = RemoveResult(stocks, symbol, shares)
            /\ realized_profits' =
                   IF symbol \in DOMAIN stocks' THEN realized_profits
                   ELSE Del(realized_profits, symbol)
    /\ UNCHANGED <<transactions, file, adds, conc>>
    /\ NoQuery

remove_stock(symbol, shares) ==
    /\ op' = "remove_stock"
    /\ IF symbol \notin DOMAIN stocks
       THEN /\ ret' = "False"
            /\ stocks' = stocks
       ELSE /\ ret' = "True"
            /\ stocks' = RemoveResult(stocks, symbol, shares)
    /\ UNCHANGED <<transactions, realized_profits, file, adds, conc>>
    /\ NoQuery

\* remaining cost basis as the queries read it:
\* data.get("remaining_cost", data["purchase_price"] * data["shares"])
RemainingCost(h) ==
    IF "remaining_cost" \in DOMAIN h
    THEN h.remaining_cost
    ELSE Times(h.purchase_price, h.shares)

-----------------------------------------------------------------------------
(* Queries: get_portfolio_data, get_performance_metrics,                   *)
(* get_historical_performance, calculate_profit_breakdown                  *)

\* the keys of a dict as a list; the model keeps no insertion order, and the
\* order of this list is the one thing of a query value that is not modelled
RECURSIVE ListOfSet(_)
ListOfSet(S) ==
    IF S = {} THEN <<>>
    ELSE LET x == CHOOSE y \in S : TRUE IN <<x>> \o ListOfSet(S \ {x})
Keys(d) == ListOfSet(DOMAIN d)

RECURSIVE Sum(_)
Sum(xs) == IF xs = <<>> THEN Zero ELSE Plus(Head(xs), Sum(Tail(xs)))

\* the entry get_portfolio_data appends for a holding with a last Close
StockInfo(symbol, data, current_price) ==
    LET current_value == Times(current_price, data.shares)
        remaining_cost == RemainingCost(data)
    IN  [symbol |-> symbol,
         shares |-> data.shares,
         current_price |-> current_price,
         current_value |-> current_value,
         purchase_price |-> data.purchase_price,
         remaining_cost |-> remaining_cost,
         gain_loss |-> Minus(current_value, remaining_cost),
         gain_loss_percent |->
             Times(Minus(Div(current_price, data.purchase_price), Num(1)), Num(100))]

\* the loop over self.stocks.items(): an empty frame appends nothing; with
\* purchase_price None the default argument purchase_price * shares raises
\* TypeError, the except clause prints it and nothing is appended
RECURSIVE PortfolioDataLoop(_, _, _)
PortfolioDataLoop(keys, stk, q5) ==
    IF keys = <<>> THEN <<>>
    ELSE LET symbol == Head(keys)
             rest == PortfolioDataLoop(Tail(keys), stk, q5)
         IN  IF q5[symbol] = NoData \/ stk[symbol].purchase_price = None
             THEN rest
             ELSE <<StockInfo(symbol, stk[symbol], q5[symbol])>> \o rest

PortfolioData(stk, q5) == PortfolioDataLoop(Keys(stk), stk, q5)

\* get_performance_metrics, the loop over one symbol's entries: unpacking
\* raises on an entry that has not four fields, float() on a bought entry
\* whose shares or price is no numeral
BoughtRaises(e) ==
    Len(e) # 4 \/ (lower(e[1]) = "bought" /\ (FloatRaises(e[3]) \/ FloatRaises(e[4])))

\* a sum that takes in the notional of every entry, sales included
RECURSIVE InitialInvestmentOfAll(_)
InitialInvestmentOfAll(txs) ==
    IF txs = <<>> THEN Zero
    ELSE Plus(Times(float(Head(txs)[3]), float(Head(txs)[4])),
              InitialInvestmentOfAll(Tail(txs)))

RECURSIVE InitialInvestment(_)
InitialInvestment(txs) ==
    IF txs = <<>> THEN Zero
    ELSE Plus(IF lower(Head(txs)[1]) = "bought"
              THEN Times(float(Head(txs)[3]), float(Head(txs)[4]))
              ELSE Zero,
              InitialInvestment(Tail(txs)))

\* earliest_date after the loop: the date of the first bought entry that no
\* bought entry undercuts, as strftime gives it back; <<>> stands for None and
\* <<d>> for the date d
RECURSIVE EarliestDate(_, _)
EarliestDate(txs, earliest_date) ==
    IF txs = <<>> THEN earliest_date
    ELSE LET e == Head(txs)
         IN  IF lower(e[1]) = "bought"
                   /\ (earliest_date = <<>> \/ strptime(e[2]) < strptime(earliest_date[1]))
             THEN EarliestDate(Tail(txs), <<e[2]>>)
             ELSE EarliestDate(Tail(txs), earliest_date)

\* the symbols get_performance_metrics goes on with: in the ledger, held, and
\* with a frame that is not empty
Measured(P, q1) ==
    {s \in DOMAIN P.transactions : s \in DOMAIN P.stocks /\ q1[s] # NoData}

\* it raises on such a symbol when an entry raises or when purchase_price is
\* None (the default argument shares * purchase_price)
MetricsRaise(P, q1) ==
    \E s \in Measured(P, q1) :
        \/ \E i \in 1 .. Len(P.transactions[s]) : BoughtRaises(P.transactions[s][i])
        \/ P.stocks[s].purchase_price = None

\* the entry appended to stocks_metrics (the fields computed from today's
\* date, days_held and annual_return, are left out)
StockMetrics(P, symbol, current_price) ==
    LET shares == P.stocks[symbol].shares
        current_value == Times(shares, current_price)
        remaining_cost == RemainingCost(P.stocks[symbol])
        gain_loss == Minus(current_value, remaining_cost)
    IN  [symbol |-> symbol,
         shares |-> shares,
         current_price |-> current_price,
         current_value |-> current_value,
         initial_investment |-> InitialInvestment(P.transactions[symbol]),
         earliest_date |-> EarliestDate(P.transactions[symbol], <<>>),
         gain_loss |-> gain_loss,
         gain_loss_pct |->
             IF Gt(remaining_cost, Zero)
             THEN Times(Div(gain_loss, remaining_cost), Num(100))
             ELSE Zero,
         realized_profit |->
             IF symbol \in DOMAIN P.realized_profits
             THEN P.realized_profits[symbol] ELSE Zero]

\* self.stocks[symbol].get("remaining_cost", 0)
RemainingCostOrZero(h) ==
    IF "remaining_cost" \in DOMAIN h THEN h.remaining_cost ELSE Zero

\* lines 492-495
RemainingInvestment(P, stocks_metrics) ==
    Sum([i \in 1 .. Len(stocks_metrics) |->
            RemainingCostOrZero(P.stocks[stocks_metrics[i].symbol])])

PerformanceMetrics(P, q1) ==
    IF MetricsRaise(P, q1) THEN Raises
    ELSE LET keys == ListOfSet(Measured(P, q1))
             stocks_metrics == [i \in 1 .. Len(keys) |-> StockMetrics(P, keys[i], q1[keys[i]])]
             total_current_value ==
                 Sum([i \in 1 .. Len(keys) |-> stocks_metrics[i].current_value])
             remaining_investment == RemainingInvestment(P, stocks_metrics)
             total_gain_loss == Minus(total_current_value, remaining_investment)
         IN  Returns(
                 [total_invested |-> remaining_investment,
                  total_current_value |-> total_current_value,
                  total_gain_loss |-> total_gain_loss,
                  total_gain_loss_pct |->
                      IF Gt(remaining_investment, Zero)
                      THEN Times(Div(total_gain_loss, remaining_investment), Num(100))
                      ELSE Zero,
                  total_realized_profit |->
                      Sum([i \in 1 .. Len(Keys(P.realized_profits)) |->
                              P.realized_profits[Keys(P.realized_profits)[i]]]),
                  stocks_metrics |-> stocks_metrics,
                  realized_profits_by_symbol |-> P.realized_profits])

\* get_historical_performance.  A frame of the provider has a row for the
\* last day and may have one for the day before.  get_multiple_stock_data
\* assigns the Close series of the symbols with data to the columns of one
\* frame: the first column sets the index (first is the symbol whose column
\* is made first; the model keeps no order of the keys and takes any), and a
\* later column is aligned to it, a day it has no row for reading NaN.
\* NaN is a cell of its own here (in the program NaN # NaN).
NaN == <<0, 0>>
LastDay == "2024-01-03"
DayBefore == "2024-01-02"

\* float arithmetic on cells
AddCell(a, b) == IF a = NaN \/ b = NaN THEN NaN ELSE Plus(a, b)
MulCell(a, b) == IF a = NaN \/ b = NaN THEN NaN ELSE Times(a, b)

RECURSIVE SumCells(_)
SumCells(xs) == IF xs = <<>> THEN Zero ELSE AddCell(Head(xs), SumCells(Tail(xs)))

\* all_data[symbol][day]
AllData(q1, past, symbol, day) ==
    IF day = LastDay THEN q1[symbol]
    ELSE IF past[symbol] = NoData THEN NaN ELSE past[symbol]

\* a frame whose Total is a sum that leaves out the cells that are NaN
HistoricalPerformanceSkippingNaN(stk, q1, past, first) ==
    LET columns == {s \in DOMAIN stk : q1[s] # NoData}
        keys == ListOfSet(columns)
        index == IF past[first] = NoData THEN <<LastDay>> ELSE <<DayBefore, LastDay>>
        days == {index[i] : i \in 1 .. Len(index)}
        value == [s \in columns |->
                     [d \in days |-> MulCell(AllData(q1, past, s, d), stk[s].shares)]]
    IN  IF columns = {} THEN [index |-> <<>>, columns |-> EmptyDict]
        ELSE [index |-> index,
              columns |->
                  [c \in columns \cup {"Total"} |->
                      IF c = "Total"
                      THEN [d \in days |->
                               Sum([i \in 1 .. Len(keys) |->
                                       IF value[keys[i]][d] = NaN THEN Zero
                                       ELSE value[keys[i]][d]])]
                      ELSE value[c]]]

\* the frame returned: empty without holdings or without data, else the
\* index, a column per held symbol with data, and Total
HistoricalPerformance(stk, q1, past, first) ==
    LET columns == {s \in DOMAIN stk : q1[s] # NoData}
        keys == ListOfSet(columns)
        index == IF past[first] = NoData THEN <<LastDay>> ELSE <<DayBefore, LastDay>>
        days == {index[i] : i \in 1 .. Len(index)}
        value == [s \in columns |->
                     [d \in days |-> MulCell(AllData(q1, past, s, d), stk[s].shares)]]
    IN  IF columns = {} THEN [index |-> <<>>, columns |-> EmptyDict]
        ELSE [index |-> index,
              columns |->
                  [c \in columns \cup {"Total"} |->
                      IF c = "Total"
                      THEN [d \in days |-> SumCells([i \in 1 .. Len(keys) |-> value[keys[i]][d]])]
                      ELSE value[c]]]

\* calculate_profit_breakdown, the loop over one symbol's entries: every
\* entry is unpacked and both numbers go through float()
RECURSIVE Bought(_)
Bought(txs) ==
    IF txs = <<>> THEN [shares |-> Zero, value |-> Zero]
    ELSE LET e == Head(txs)
             r == Bought(Tail(txs))
         IN  IF lower(e[1]) = "bought"
             THEN [shares |-> Plus(float(e[3]), r.shares),
                   value |-> Plus(Times(float(e[3]), float(e[4])), r.value)]
             ELSE r

RECURSIVE Sold(_)
Sold(txs) ==
    IF txs = <<>> THEN [shares |-> Zero, value |-> Zero]
    ELSE LET e == Head(txs)
             r == Sold(Tail(txs))
         IN  IF lower(e[1]) = "sold"
             THEN [shares |-> Plus(float(e[3]), r.shares),
                   value |-> Plus(Times(float(e[3]), float(e[4])), r.value)]
             ELSE r

\* portfolio.transactions.get(symbol, [])
TransactionsOf(P, symbol) ==
    IF symbol \in DOMAIN P.transactions THEN P.transactions[symbol] ELSE <<>>

\* next((s for s in portfolio_data if s["symbol"] == symbol), None)
HasInfo(portfolio_data, symbol) ==
    \E i \in 1 .. Len(portfolio_data) : portfolio_data[i].symbol = symbol
InfoOf(portfolio_data, symbol) ==
    portfolio_data[CHOOSE i \in 1 .. Len(portfolio_data) :
                       portfolio_data[i].symbol = symbol]

\* the entry of by_stock for a symbol
StockData(P, portfolio_data, symbol) ==
    LET txs == TransactionsOf(P, symbol)
        bought == Bought(txs)
        sold == Sold(txs)
        realized_profit ==
            IF symbol \in DOMAIN P.realized_profits
            THEN P.realized_profits[symbol] ELSE Zero
        found == symbol \in DOMAIN P.stocks /\ HasInfo(portfolio_data, symbol)
        stock_info == InfoOf(portfolio_data, symbol)
        unrealized_profit == IF found THEN stock_info.gain_loss ELSE Zero
        total_profit == Plus(realized_profit, unrealized_profit)
        initial_investment == Minus(bought.value, sold.value)
    IN  [symbol |-> symbol,
         total_bought |-> bought.shares,
         total_bought_value |-> bought.value,
         total_sold |-> sold.shares,
         total_sold_value |-> sold.value,
         current_shares |->
             IF symbol \in DOMAIN P.stocks THEN P.stocks[symbol].shares ELSE Zero,
         current_value |-> IF found THEN stock_info.current_value ELSE Zero,
         current_price |-> IF found THEN stock_info.current_price ELSE Zero,
         realized_profit |-> realized_profit,
         unrealized_profit |-> unrealized_profit,
         total_profit |-> total_profit,
         profit_pct |->
             IF Gt(bought.value, Zero)
             THEN Times(Div(total_profit, bought.value), Num(100)) ELSE Zero,
         average_cost |->
             IF Gt(bought.shares, Zero) THEN Div(bought.value, bought.shares) ELSE Zero,
         roi |->
             IF Gt(initial_investment, Zero)
             THEN Times(Div(total_profit, initial_investment), Num(100)) ELSE Zero]

\* an insertion for a sort that puts the smallest total_profit first
RECURSIVE InsertByProfitAscending(_, _)
InsertByProfitAscending(x, xs) ==
    IF xs = <<>> THEN <<x>>
    ELSE IF Less(x.total_profit, Head(xs).total_profit) THEN <<x>> \o xs
    ELSE <<Head(xs)>> \o InsertByProfitAscending(x, Tail(xs))

\* list.sort(key=total_profit, reverse=True): entry x goes before the
\* entries of the sorted list xs whose total_profit is smaller
RECURSIVE InsertByProfit(_, _)
InsertByProfit(x, xs) ==
    IF xs = <<>> THEN <<x>>
    ELSE IF Less(Head(xs).total_profit, x.total_profit) THEN <<x>> \o xs
    ELSE <<Head(xs)>> \o InsertByProfit(x, Tail(xs))

RECURSIVE SortByProfit(_)
SortByProfit(xs) ==
    IF xs = <<>> THEN <<>>
    ELSE InsertByProfit(xs[Len(xs)], SortByProfit(SubSeq(xs, 1, Len(xs) - 1)))

\* a summary whose total_profit leaves the realized profit out
SummaryWithoutRealized(metrics) ==
    LET total_realized == metrics.total_realized_profit
        total_unrealized == metrics.total_gain_loss
        total_profit == total_unrealized
        totals == [total_invested |-> metrics.total_invested,
                   current_value |-> metrics.total_current_value,
                   total_realized |-> total_realized,
                   total_unrealized |-> total_unrealized,
                   total_profit |-> total_profit]
    IN  IF total_profit # Zero
        THEN [k \in DOMAIN totals \cup {"realized_ratio", "unrealized_ratio"} |->
                 CASE k = "realized_ratio" -> Div(total_realized, total_profit)
                   [] k = "unrealized_ratio" -> Div(total_unrealized, total_profit)
                   [] OTHER -> totals[k]]
        ELSE totals

\* a summary that carries the two ratios always, as 0 when total_profit is 0
SummaryWithZeroRatios(metrics) ==
    LET total_realized == metrics.total_realized_profit
        total_unrealized == metrics.total_gain_loss
        total_profit == Plus(total_realized, total_unrealized)
        totals == [total_invested |-> metrics.total_invested,
                   current_value |-> metrics.total_current_value,
                   total_realized |-> total_realized,
                   total_unrealized |-> total_unrealized,
                   total_profit |-> total_profit]
    IN  [k \in DOMAIN totals \cup {"realized_ratio", "unrealized_ratio"} |->
            CASE k = "realized_ratio" ->
                     IF total_profit # Zero THEN Div(total_realized, total_profit) ELSE Zero
              [] k = "unrealized_ratio" ->
                     IF total_profit # Zero THEN Div(total_unrealized, total_profit) ELSE Zero
              [] OTHER -> totals[k]]

\* the summary; the two ratios are keys of it only when total_profit is not 0
Summary(metrics) ==
    LET total_realized == metrics.total_realized_profit
        total_unrealized == metrics.total_gain_loss
        total_profit == Plus(total_realized, total_unrealized)
        totals == [total_invested |-> metrics.total_invested,
                   current_value |-> metrics.total_current_value,
                   total_realized |-> total_realized,
                   total_unrealized |-> total_unrealized,
                   total_profit |-> total_profit]
    IN  IF total_profit # Zero
        THEN [k \in DOMAIN totals \cup {"realized_ratio", "unrealized_ratio"} |->
                 CASE k = "realized_ratio" -> Div(total_realized, total_profit)
                   [] k = "unrealized_ratio" -> Div(total_unrealized, total_profit)
                   [] OTHER -> totals[k]]
        ELSE totals

AllSymbols(P) == DOMAIN P.stocks \cup DOMAIN P.realized_profits

ProfitBreakdown(P, q5, q1) ==
    IF P.stocks = EmptyDict /\ P.realized_profits = EmptyDict
    THEN ReturnsNone
    ELSE LET portfolio_data == PortfolioData(P.stocks, q5)
             metrics == PerformanceMetrics(P, q1)
             all_symbols == ListOfSet(AllSymbols(P))
         IN  IF \/ metrics.raised
                \/ \E s \in AllSymbols(P) : ListRaises(TransactionsOf(P, s))
             THEN Raises
             ELSE Returns(
                      [by_stock |->
                           SortByProfit([i \in 1 .. Len(all_symbols) |->
                                            StockData(P, portfolio_data, all_symbols[i])]),
                       summary |-> Summary(metrics.value)])

\* str.upper() on the symbols typed into the form
upper(symbol) ==
    CASE symbol = "aapl" -> "AAPL"
      [] symbol = "msft" -> "MSFT"
      [] OTHER -> symbol

\* a handler that takes an empty shares box for no shares
update_portfolio_lenient(n_clicks, symbol, shares, price) ==
    IF n_clicks > 0 /\ symbol # ""
    THEN add_stock(upper(symbol), IF shares = None THEN Zero ELSE shares, price)
    ELSE /\ op' = "update_portfolio"
         /\ ret' = "None"
         /\ UNCHANGED <<stocks, transactions, realized_profits, file, adds, conc>>
         /\ NoQuery

\* the handler of add-stock-button: the form values are the text of the
\* symbol box ("" also stands for None, both are falsy) and the numbers of
\* the shares and price boxes or None; float() of a number is that number.
\* The table and the figure it goes on to build from get_portfolio_data
\* assign nothing.
update_portfolio(n_clicks, symbol, shares, price) ==
    IF n_clicks > 0 /\ symbol # "" /\ shares # None /\ shares # Zero
    THEN add_stock(upper(symbol), shares, price)
    ELSE /\ op' = "update_portfolio"
         /\ ret' = "None"
         /\ UNCHANGED <<stocks, transactions, realized_profits, file, adds, conc>>
         /\ NoQuery

\* The four queries as operations: the provider answers the calls that are
\* made, the value goes to the caller, and the three maps are not assigned.
\* ret is the status of an operation that changes the portfolio.
Query(name, q5, q1, value) ==
    /\ op' = name
    /\ ret' = "None"
    /\ quotes' = [d5 |-> q5, y1 |-> q1, past |-> Unasked]
    /\ result' = value
    /\ UNCHANGED <<stocks, transactions, realized_profits, file, adds, conc>>

\* a snapshot that forgets the holdings the provider has nothing for
get_portfolio_data_pruning ==
    \E q5 \in Answers(DOMAIN stocks) :
        /\ op' = "get_portfolio_data"
        /\ ret' = "None"
        /\ quotes' = [d5 |-> q5, y1 |-> Unasked, past |-> Unasked]
        /\ result' = Returns(PortfolioData(stocks, q5))
        /\ stocks' = [s \in {x \in DOMAIN stocks : q5[x] # NoData} |-> stocks[s]]
        /\ UNCHANGED <<transactions, realized_profits, file, adds, conc>>

get_portfolio_data ==
    \E q5 \in Answers(DOMAIN stocks) :
        Query("get_portfolio_data", q5, Unasked, Returns(PortfolioData(stocks, q5)))

\* q1 is what the provider has for the symbols of the ledger; the loop asks
\* for those of them that are held
get_performance_metrics ==
    \E q1 \in Answers(DOMAIN transactions) :
        Query("get_performance_metrics", Unasked, q1, PerformanceMetrics(Current, q1))

\* the provider is asked for every held symbol
get_historical_performance ==
    \E q1 \in Answers(DOMAIN stocks) :
        \E past \in PastAnswers({s \in DOMAIN stocks : q1[s] # NoData}) :
            \E first \in Symbols :
                /\ IF \E s \in DOMAIN stocks : q1[s] # NoData
                   THEN first \in DOMAIN stocks /\ q1[first] # NoData
                   ELSE first = CHOOSE s \in Symbols : TRUE
                /\ op' = "get_historical_performance"
                /\ ret' = "None"
                /\ quotes' = [d5 |-> Unasked, y1 |-> q1, past |-> past]
                /\ result' = Returns(HistoricalPerformance(stocks, q1, past, first))
                /\ UNCHANGED <<stocks, transactions, realized_profits, file, adds, conc>>

\* no call reaches the provider when stocks and realized_profits are empty
calculate_profit_breakdown ==
    \E q5 \in Answers(DOMAIN stocks) :
        \E q1 \in Answers(DOMAIN stocks \cap DOMAIN transactions) :
            Query("calculate_profit_breakdown", q5, q1, ProfitBreakdown(Current, q5, q1))

-----------------------------------------------------------------------------
(* export_transactions_csv *)

\* the shares of all entries of a list whose action is sold
RECURSIVE SoldShares(_)
SoldShares(txs) ==
    IF txs = <<>> THEN Zero
    ELSE Plus(IF lower(Head(txs)[1]) = "sold" THEN float(Head(txs)[3]) ELSE Zero,
              SoldShares(Tail(txs)))

\* Profit/Loss of a row: the symbol's realized profit per share sold times
\* the shares of the row, for a sold entry of a symbol in realized_profits
\* (the search over the symbol's list finds the entry itself at the latest)
ProfitOfRow(P, symbol, e) ==
    IF lower(e[1]) = "sold" /\ symbol \in DOMAIN P.realized_profits
          /\ Gt(SoldShares(P.transactions[symbol]), Zero)
    THEN Times(Div(P.realized_profits[symbol], SoldShares(P.transactions[symbol])),
               float(e[3]))
    ELSE None

Row(P, symbol, e) ==
    [Date |-> e[2],
     Symbol |-> symbol,
     Action |-> e[1],
     Shares |-> float(e[3]),
     Price |-> float(e[4]),
     TotalValue |-> Times(float(e[3]), float(e[4])),
     Profit |-> ProfitOfRow(P, symbol, e)]

\* the rows in the order they are appended: symbol by symbol, each list in
\* its own order
RECURSIVE RowsOf(_, _)
RowsOf(P, keys) ==
    IF keys = <<>> THEN <<>>
    ELSE [i \in 1 .. Len(P.transactions[Head(keys)]) |->
             Row(P, Head(keys), P.transactions[Head(keys)][i])]
         \o RowsOf(P, Tail(keys))

\* list.sort(key=strptime(Date), reverse=True): the sort is stable, so row x
\* goes before the rows of the sorted list xs that are older and behind those
\* of its own date that were appended before it
RECURSIVE InsertByDate(_, _)
InsertByDate(x, xs) ==
    IF xs = <<>> THEN <<x>>
    ELSE IF strptime(Head(xs).Date) < strptime(x.Date) THEN <<x>> \o xs
    ELSE <<Head(xs)>> \o InsertByDate(x, Tail(xs))

RECURSIVE SortNewestFirst(_)
SortNewestFirst(xs) ==
    IF xs = <<>> THEN <<>>
    ELSE InsertByDate(xs[Len(xs)], SortNewestFirst(SubSeq(xs, 1, Len(xs) - 1)))

ExportRows(P, n_clicks) ==
    IF n_clicks = 0 \/ P.transactions = EmptyDict
    THEN ReturnsNone
    ELSE IF \E s \in DOMAIN P.transactions : ListRaises(P.transactions[s])
    THEN Raises
    ELSE Returns(SortNewestFirst(RowsOf(P, Keys(P.transactions))))

export_transactions_csv(n_clicks) ==
    Query("export_transactions_csv", Unasked, Unasked, ExportRows(Current, n_clicks))

-----------------------------------------------------------------------------
(* Inputs *)

Numeral(n) == ToString(n)
QtyTexts == {Numeral(n) : n \in 1 .. MaxQty}

\* prices are the lowest and the highest numeral
PriceTexts == {Numeral(1), Numeral(MaxQty)}

GoodEntries ==
    {<<a, d, q, p>> : a \in {"Bought", "Sold"}, d \in Dates, q \in QtyTexts, p \in PriceTexts}

\* lists of at most n entries drawn from E
Lists(E, n) == UNION {[1 .. k -> E] : k \in 0 .. n}

\* the ledgers of the replay specification: one symbol with a list of at most
\* n entries, alone or followed by a second symbol that buys one share
Companion(t) == <<t, << <<"Bought", CHOOSE d \in Dates : TRUE, "1", "1">> >> >>
Ledgers(E, n) ==
    {<<>>}
      \cup {<<<<s, l>>>> : s \in Symbols, l \in Lists(E, n)}
      \cup {<<<<st[1], l>>, Companion(st[2])>> :
               st \in {x \in Symbols \X Symbols : x[1] # x[2]}, l \in Lists(E, n)}

\* entries on two days, for the ledgers that are exported
DatedEntries ==
    {<<a, d, q, p>> : a \in {"Bought", "Sold"}, d \in {"2024-01-02", "2024-01-03"},
                      q \in QtyTexts, p \in PriceTexts}

\* the purchases among them, for the ledgers that are entered by hand
BuyEntries == {e \in DatedEntries : e[1] = "Bought"}

Unreadable == [readable |-> FALSE, items |-> <<>>]
FilesOf(E, n) == {[readable |-> TRUE, items |-> it] : it \in Ledgers(E, n)}

\* the ledger files the operations of the full state machine are offered (the
\* files of the PersonalPortfolios directory): well-formed ledgers with a
\* holding, a partial sale and a position sold out, ledgers with a malformed
\* entry in the first and in the second symbol, an empty ledger, and a file
\* that is no JSON
Day == CHOOSE d \in Dates : TRUE
Top == Numeral(MaxQty)
Ledger(items) == [readable |-> TRUE, items |-> items]
Files ==
    {Ledger(<<>>),
     Ledger(<< <<"AAPL", << <<"Bought", Day, Top, "1">> >> >> >>),
     Ledger(<< <<"AAPL", << <<"Bought", Day, Top, "1">>, <<"Sold", Day, "1", Top>> >> >>,
               <<"MSFT", << <<"Bought", Day, "1", Top>> >> >> >>),
     Ledger(<< <<"MSFT", << <<"bought", Day, "1", "1">>, <<"SOLD", Day, "1", Top>> >> >> >>),
     Ledger(<< <<"AAPL", << <<"Bought", Day, Top, "1">> >> >>,
               <<"MSFT", << <<"Bought", Day, "abc", "1">> >> >> >>),
     Ledger(<< <<"MSFT", << <<"Bought", Day, "1", "1">>, <<"Sold", Day, "1">> >> >>,
               <<"AAPL", << <<"Bought", Day, "1", "1">> >> >> >>),
     Unreadable}

\* the files offered where queries follow: those above, a ledger with a
\* position sold out at the price paid, one with an entry whose action is
\* neither a purchase nor a sale, and one whose first purchase is not the
\* earliest, next to a position sold out
QueryFiles ==
    Files \cup
    {Ledger(<< <<"AAPL", << <<"Bought", Day, "1", "1">>, <<"Sold", Day, "1", "1">> >> >>,
               <<"MSFT", << <<"Bought", Day, "1", "1">> >> >> >>),
     Ledger(<< <<"AAPL", << <<"Dividend", Day, "1", "1">>, <<"Bought", Day, "1", Top>> >> >> >>),
     Ledger(<< <<"MSFT", << <<"Bought", "2024-01-03", "1", Top>>,
                            <<"Bought", "2024-01-02", "1", "1">>,
                            <<"Sold", "2024-01-03", "1", Top>> >> >>,
               <<"AAPL", << <<"Bought", "2024-01-02", "1", "1">>,
                            <<"Sold", "2024-01-03", "1", Top>> >> >> >>)}


ShareArgs == {Num(n) : n \in 1 .. MaxQty}
\* prices given to add_stock are, as in ledgers, the lowest and the highest
PriceArgs == {Num(1), Num(MaxQty)}

\* requests of the add form: the call Dash makes when the page loads
\* (n_clicks 0, empty boxes), and clicks with the boxes filled or left empty
Requests ==
    {<<0, "", None, None>>}
        \cup ({1} \X {"", "aapl", "msft"} \X {None, Num(1)} \X {None, Num(MaxQty)})

-----------------------------------------------------------------------------
(* Requests on threads of their own.  app.run(debug=True) starts the       *)
(* development server, which serves every callback request on a new        *)
(* thread; a click on import-portfolio-button fires import_portfolio and   *)
(* the three profit callbacks as separate requests.  import_from_json is   *)
(* then a sequence of steps, one per store into a map of the portfolio,    *)
(* and a profit callback reads the maps between any two of them.           *)

NoView == [view |-> EmptyPortfolio, during |-> "idle", since |-> EmptyPortfolio,
           file |-> Unreadable]

InitConc ==
    /\ pc = "idle"
    /\ todo = <<>>
    /\ local = ReplayStart
    /\ begun = EmptyPortfolio
    /\ imports = 0
    /\ observed = NoView

\* import_portfolio calls import_from_json: open and json.load; a file that
\* cannot be read raises before anything is touched
ImportOpen(f) ==
    /\ pc = "idle"
    /\ imports < MaxImports
    /\ imports' = imports + 1
    /\ file' = f
    /\ begun' = Current
    /\ IF f.readable
       THEN /\ pc' = "clear_stocks"
            /\ todo' = f.items
            /\ UNCHANGED <<op, ret>>
       ELSE /\ pc' = "idle"
            /\ op' = "import_from_json"
            /\ ret' = "False"
            /\ UNCHANGED todo
    /\ UNCHANGED <<stocks, transactions, realized_profits, adds, local, observed, qry>>

ClearStocks ==
    /\ pc = "clear_stocks"
    /\ stocks' = EmptyDict
    /\ pc' = "clear_transactions"
    /\ UNCHANGED <<transactions, realized_profits, op, ret, file, adds,
                   todo, local, begun, imports, observed, qry>>

ClearTransactions ==
    /\ pc = "clear_transactions"
    /\ transactions' = EmptyDict
    /\ pc' = "clear_realized"
    /\ UNCHANGED <<stocks, realized_profits, op, ret, file, adds,
                   todo, local, begun, imports, observed, qry>>

ClearRealized ==
    /\ pc = "clear_realized"
    /\ realized_profits' = EmptyDict
    /\ pc' = "for_symbol"
    /\ UNCHANGED <<stocks, transactions, op, ret, file, adds,
                   todo, local, begun, imports, observed, qry>>

\* for symbol, transactions in data.items(): store the list, or return True
ForSymbol ==
    /\ pc = "for_symbol"
    /\ IF todo = <<>>
       THEN /\ pc' = "idle"
            /\ op' = "import_from_json"
            /\ ret' = "True"
            /\ UNCHANGED transactions
       ELSE /\ pc' = "replay"
            /\ transactions' = Put(transactions, Head(todo)[1], Head(todo)[2])
            /\ UNCHANGED <<op, ret>>
    /\ UNCHANGED <<stocks, realized_profits, file, adds,
                   todo, local, begun, imports, observed, qry>>

\* the inner loop works on locals; an entry that raises ends the call
ReplaySymbol ==
    /\ pc = "replay"
    /\ IF ListRaises(Head(todo)[2])
       THEN /\ pc' = "idle"
            /\ op' = "import_from_json"
            /\ ret' = "False"
            /\ UNCHANGED local
       ELSE /\ pc' = "store_realized"
            /\ local' = Replay(Head(todo)[2])
            /\ UNCHANGED <<op, ret>>
    /\ UNCHANGED <<stocks, transactions, realized_profits, file, adds,
                   todo, begun, imports, observed, qry>>

StoreRealizedStep ==
    /\ pc = "store_realized"
    /\ realized_profits' = StoreRealized(realized_profits, Head(todo)[1], local)
    /\ pc' = "store_holding"
    /\ UNCHANGED <<stocks, transactions, op, ret, file, adds,
                   todo, local, begun, imports, observed, qry>>

StoreHoldingStep ==
    /\ pc = "store_holding"
    /\ stocks' = StoreHolding(stocks, Head(todo)[1], local)
    /\ todo' = Tail(todo)
    /\ pc' = "for_symbol"
    /\ UNCHANGED <<transactions, realized_profits, op, ret, file, adds,
                   local, begun, imports, observed, qry>>

\* what a profit callback reads of the portfolio P: stocks and
\* realized_profits, and when one of them is not empty, through
\* calculate_profit_breakdown, transactions as well
Reads(P) ==
    IF P.stocks = EmptyDict /\ P.realized_profits = EmptyDict
    THEN [P EXCEPT !.transactions = EmptyDict]
    ELSE P

ProfitCallback ==
    /\ observed' = [view |-> Reads(Current), during |-> pc, since |-> begun, file |-> file]
    /\ UNCHANGED <<stocks, transactions, realized_profits, op, ret, file, adds,
                   pc, todo, local, begun, imports, qry>>

-----------------------------------------------------------------------------
(* The state machine of the portfolio: any sequence of the three operations *)

Init ==
    /\ stocks = EmptyDict
    /\ transactions = EmptyDict
    /\ realized_profits = EmptyDict
    /\ op = "init"
    /\ ret = "None"
    /\ file = Unreadable
    /\ adds = 0
    /\ InitConc
    /\ InitQuery

Next ==
    \/ \E f \in Files : import_from_json(f)
    \/ \E s \in Symbols, q \in ShareArgs, p \in PriceArgs \cup {None} : add_stock(s, q, p)
    \/ \E s \in Symbols, q \in ShareArgs \cup {None} : remove_stock(s, q)

Spec == Init /\ [][Next]_vars

(* One import of a ledger drawn from a larger set, on an empty portfolio *)

InitReplay ==
    /\ stocks = EmptyDict
    /\ transactions = EmptyDict
    /\ realized_profits = EmptyDict
    /\ op = "init"
    /\ ret = "None"
    /\ file \in FilesOf(GoodEntries, MaxTx)
    /\ adds = 0
    /\ InitConc
    /\ InitQuery

NextReplay == op = "init" /\ import_from_json(file)

SpecReplay == InitReplay /\ [][NextReplay]_vars

(* One import of a ledger with entries on two days, and then an export *)

InitExport ==
    /\ stocks = EmptyDict
    /\ transactions = EmptyDict
    /\ realized_profits = EmptyDict
    /\ op = "init"
    /\ ret = "None"
    /\ file \in FilesOf(DatedEntries, MaxTx)
    /\ adds = 0
    /\ InitConc
    /\ InitQuery

NextExport ==
    \/ op = "init" /\ import_from_json(file)
    \/ op = "import_from_json" /\ \E n_clicks \in {0, 1} : export_transactions_csv(n_clicks)

SpecExport == InitExport /\ [][NextExport]_vars

(* One import of a one-symbol ledger with entries on two days; with the     *)
(* day as one more choice per entry the lists are one entry shorter than    *)
(* the longest of the replay specification                                  *)

InitDates ==
    /\ stocks = EmptyDict
    /\ transactions = EmptyDict
    /\ realized_profits = EmptyDict
    /\ op = "init"
    /\ ret = "None"
    /\ file \in {Ledger(<< <<s, l>> >>) : s \in Symbols, l \in Lists(DatedEntries, MaxTx - 1)}
    /\ adds = 0
    /\ InitConc
    /\ InitQuery

NextDates == op = "init" /\ import_from_json(file)

SpecDates == InitDates /\ [][NextDates]_vars

(* The purchases of a one-symbol ledger entered by hand, one add_stock call  *)
(* per entry in the order of the list, on an empty portfolio                *)

InitAdds ==
    /\ stocks = EmptyDict
    /\ transactions = EmptyDict
    /\ realized_profits = EmptyDict
    /\ op = "init"
    /\ ret = "None"
    /\ file \in {Ledger(<< <<s, l>> >>) :
                    s \in Symbols, l \in Lists(BuyEntries, MaxAdds) \ {<<>>}}
    /\ adds = 0
    /\ InitConc
    /\ InitQuery

NextAdds ==
    /\ adds < Len(file.items[1][2])
    /\ LET e == file.items[1][2][adds + 1]
       IN  add_stock(file.items[1][1], float(e[3]), float(e[4]))

SpecAdds == InitAdds /\ [][NextAdds]_vars

(* Any sequence of imports, requests of the add form and removals, and      *)
(* then a query.  A query assigns none of the maps and an operation leaves  *)
(* no query value behind, so what can follow a query is what can follow the *)
(* state it was asked in; behaviours are not continued beyond a query.      *)

QueryNames ==
    {"get_portfolio_data", "get_performance_metrics", "get_historical_performance",
     "calculate_profit_breakdown"}

NextQuery ==
    \/ op \notin QueryNames
          /\ \E f \in QueryFiles : import_from_json(f)
    \/ op \notin QueryNames
          /\ \E r \in Requests : update_portfolio(r[1], r[2], r[3], r[4])
    \/ op \notin QueryNames
          /\ \E s \in Symbols, q \in ShareArgs \cup {None} : remove_stock(s, q)
    \/ op \notin QueryNames /\ get_portfolio_data
    \/ op \notin QueryNames /\ get_performance_metrics
    \/ op \notin QueryNames /\ get_historical_performance
    \/ op \notin QueryNames /\ calculate_profit_breakdown

SpecQuery == Init /\ [][NextQuery]_vars

(* Import requests and profit callbacks on threads of their own *)

NextConc ==
    \/ \E f \in Files : ImportOpen(f)
    \/ ClearStocks
    \/ ClearTransactions
    \/ ClearRealized
    \/ ForSymbol
    \/ ReplaySymbol
    \/ StoreRealizedStep
    \/ StoreHoldingStep
    \/ ProfitCallback

SpecConc == Init /\ [][NextConc]_vars


-----------------------------------------------------------------------------
(* Properties *)

Imported == op = "import_from_json" /\ ret = "True"

\* the entries of the imported file, per symbol
ItemIndex == 1 .. Len(file.items)
SymbolOf(k) == file.items[k][1]
ListOf(k) == file.items[k][2]
Prefix(txs, i) == SubSeq(txs, 1, i)
IsSell(e) == lower(e[1]) = "sold"
IsBuy(e) == lower(e[1]) = "bought"

\* C1: whenever import_from_json returns False, stocks, transactions and
\* realized_profits are what they were before the call.
C1_FailedImportLeavesState ==
    [][(op' = "import_from_json" /\ ret' = "False")
          => UNCHANGED <<stocks, transactions, realized_profits>>]_vars

\* C2: every holding with an average cost has remaining cost basis, as the
\* queries read it, equal to shares times average cost.
C2_RemainingCostIsSharesTimesAverage ==
    \A s \in DOMAIN stocks :
        stocks[s].purchase_price # None
            => RemainingCost(stocks[s]) = Times(stocks[s].shares, stocks[s].purchase_price)

\* C3: a profit callback never reads the maps in a state that lies between
\* the state import_from_json was called in and the state it returns in.
C3_CallbacksSeeWholeImports ==
    observed.during # "idle"
        => observed.view \in {Reads(observed.since),
                              Reads(ImportResult(observed.file, observed.since).state)}

\* C4: during replay a Sell of q at p with shares_owned >= q adds
\* q * (p - running_avg_cost) to the realized profit, takes q from shares_owned
\* and leaves running_avg_cost as it was; Buy q1@p1 then Sell q2@p2, q2 <= q1,
\* gives profit q2*(p2-p1), average p1, shares q1-q2, remaining cost (q1-q2)*p1.
C4_SellStepHolds(txs, i) ==
    LET before == Replay(Prefix(txs, i - 1))
        after == Replay(Prefix(txs, i))
        q == float(txs[i][3])
        p == float(txs[i][4])
    IN  (IsSell(txs[i]) /\ Geq(before.shares_owned, q))
            => /\ after.total_realized_profit =
                      Plus(before.total_realized_profit,
                           Times(q, Minus(p, before.running_avg_cost)))
               /\ after.shares_owned = Minus(before.shares_owned, q)
               /\ after.running_avg_cost = before.running_avg_cost

C4_BuyThenSell(k) ==
    LET txs == ListOf(k)
        s == SymbolOf(k)
        q1 == float(txs[1][3])
        p1 == float(txs[1][4])
        q2 == float(txs[2][3])
        p2 == float(txs[2][4])
        profit == Times(q2, Minus(p2, p1))
    IN  (Len(txs) = 2 /\ IsBuy(txs[1]) /\ IsSell(txs[2]) /\ Leq(q2, q1))
            => /\ IF profit = Zero THEN s \notin DOMAIN realized_profits
                  ELSE s \in DOMAIN realized_profits /\ realized_profits[s] = profit
               /\ IF q1 = q2 THEN s \notin DOMAIN stocks
                  ELSE /\ s \in DOMAIN stocks
                       /\ stocks[s].shares = Minus(q1, q2)
                       /\ stocks[s].purchase_price = p1
                       /\ RemainingCost(stocks[s]) = Times(Minus(q1, q2), p1)

C4_SellRealizesAgainstAverage ==
    Imported =>
        \A k \in ItemIndex :
            /\ \A i \in 1 .. Len(ListOf(k)) : C4_SellStepHolds(ListOf(k), i)
            /\ C4_BuyThenSell(k)

\* an import in which a sale at a price other than the average left shares
C4_Witness ==
    /\ Imported
    /\ \E k \in ItemIndex :
          /\ Len(ListOf(k)) = 2 /\ IsBuy(ListOf(k)[1]) /\ IsSell(ListOf(k)[2])
          /\ SymbolOf(k) \in DOMAIN realized_profits
          /\ SymbolOf(k) \in DOMAIN stocks

\* C5: after the import of a non-empty list of Buys only, the holding's shares
\* are the sum of the shares bought, its average cost is sum(q*p)/sum(q), and
\* its remaining cost basis is shares times average cost, that is sum(q*p).
RECURSIVE SumQ(_)
SumQ(txs) == IF txs = <<>> THEN Zero ELSE Plus(float(Head(txs)[3]), SumQ(Tail(txs)))
RECURSIVE SumQP(_)
SumQP(txs) ==
    IF txs = <<>> THEN Zero
    ELSE Plus(Times(float(Head(txs)[3]), float(Head(txs)[4])), SumQP(Tail(txs)))
BuysOnly(txs) == txs # <<>> /\ \A i \in 1 .. Len(txs) : IsBuy(txs[i])

C5_BuysGiveWeightedAverage ==
    Imported =>
        \A k \in ItemIndex :
            BuysOnly(ListOf(k)) =>
                /\ SymbolOf(k) \in DOMAIN stocks
                /\ LET h == stocks[SymbolOf(k)]
                   IN  /\ h.shares = SumQ(ListOf(k))
                       /\ h.purchase_price = Div(SumQP(ListOf(k)), SumQ(ListOf(k)))
                       /\ RemainingCost(h) = Times(h.shares, h.purchase_price)
                       /\ RemainingCost(h) = SumQP(ListOf(k))

\* an import of buys whose average is none of the prices paid
C5_Witness ==
    /\ Imported
    /\ \E k \in ItemIndex :
          /\ BuysOnly(ListOf(k))
          /\ Len(ListOf(k)) >= 2
          /\ stocks[SymbolOf(k)].purchase_price[2] # 1

\* C6: a Sell of more than shares_owned changes neither shares_owned nor
\* running_avg_cost nor the realized profit, the import succeeds, and stocks and
\* realized_profits are those of the import of the ledger without that Sell.
Without(txs, i) == SubSeq(txs, 1, i - 1) \o SubSeq(txs, i + 1, Len(txs))
FileWithout(k, i) ==
    [file EXCEPT !.items = [j \in ItemIndex |->
                               IF j = k THEN <<SymbolOf(k), Without(ListOf(k), i)>>
                               ELSE file.items[j]]]
Oversell(txs, i) ==
    /\ IsSell(txs[i])
    /\ Gt(float(txs[i][3]), Replay(Prefix(txs, i - 1)).shares_owned)

C6_OversellIsSkipped ==
    (op = "import_from_json" /\ file.readable) =>
        \A k \in ItemIndex : \A i \in 1 .. Len(ListOf(k)) :
            Oversell(ListOf(k), i) =>
                /\ ret = "True"
                /\ Replay(Prefix(ListOf(k), i)) = Replay(Prefix(ListOf(k), i - 1))
                /\ LET r == ImportResult(FileWithout(k, i), EmptyPortfolio)
                   IN  /\ stocks = r.state.stocks
                       /\ realized_profits = r.state.realized_profits

\* an import with an oversell after a buy and with a sale after the oversell
C6_Witness ==
    /\ Imported
    /\ \E k \in ItemIndex :
          /\ Len(ListOf(k)) = 3
          /\ IsBuy(ListOf(k)[1])
          /\ Oversell(ListOf(k), 2)
          /\ IsSell(ListOf(k)[3]) /\ ~Oversell(ListOf(k), 3)

\* C7: after a successful import a symbol whose replay ends with no shares has
\* no holding and its realized profit, if not zero, is in realized_profits; a
\* symbol whose replay ends with shares has a holding with those shares.
C7_HoldingsFollowReplay ==
    Imported =>
        \A k \in ItemIndex :
            LET st == Replay(ListOf(k))
                s == SymbolOf(k)
            IN  /\ st.shares_owned = Zero =>
                      /\ s \notin DOMAIN stocks
                      /\ st.total_realized_profit # Zero =>
                            /\ s \in DOMAIN realized_profits
                            /\ realized_profits[s] = st.total_realized_profit
                /\ Gt(st.shares_owned, Zero) =>
                      /\ s \in DOMAIN stocks
                      /\ stocks[s].shares = st.shares_owned

\* an import that sold one symbol out at a profit or loss and left shares of another
C7_Witness ==
    /\ Imported
    /\ \E k \in ItemIndex :
          /\ ListOf(k) # <<>>
          /\ SymbolOf(k) \notin DOMAIN stocks
          /\ SymbolOf(k) \in DOMAIN realized_profits
    /\ DOMAIN stocks # {}

\* C8: a successful import leaves the state that the import of the same file
\* into an empty portfolio leaves, whatever the state before the call.
C8_ImportReplaces ==
    [][(op' = "import_from_json" /\ ret' = "True")
          => Portfolio(stocks', transactions', realized_profits')
                = ImportResult(file', EmptyPortfolio).state]_vars

\* a successful import made after add_stock had run, whose ledger leaves a
\* holding and no realized profit
C8_Witness ==
    /\ Imported
    /\ adds > 0
    /\ DOMAIN stocks # {}
    /\ realized_profits = EmptyDict

\* C9: remove_stock on a held symbol deletes the holding when shares is None or
\* at least the shares held, and otherwise takes shares from the holding and
\* leaves purchase_price; on a symbol not held it returns False and changes
\* nothing.
C9_RemoveCase(s, q) ==
    IF s \notin DOMAIN stocks
    THEN ret' = "False" /\ UNCHANGED <<stocks, transactions, realized_profits>>
    ELSE /\ ret' = "True"
         /\ IF q = None \/ Geq(q, stocks[s].shares)
            THEN s \notin DOMAIN stocks'
            ELSE /\ s \in DOMAIN stocks'
                 /\ stocks'[s].shares = Minus(stocks[s].shares, q)
                 /\ stocks'[s].purchase_price = stocks[s].purchase_price

C9_RemoveStock ==
    [][\A s \in Symbols, q \in ShareArgs \cup {None} :
          remove_stock(s, q) => C9_RemoveCase(s, q)]_vars

\* a removal that left part of an imported holding
C9_Witness ==
    /\ op = "remove_stock"
    /\ ret = "True"
    /\ \E s \in DOMAIN stocks :
          /\ "remaining_cost" \in DOMAIN stocks[s]
          /\ Less(stocks[s].shares, Replay(transactions[s]).total_shares)

\* C10: remove_stock changes neither transactions nor realized_profits nor the
\* holding of any other symbol; a symbol removed whole keeps its entry in
\* realized_profits.
C10_RemoveFrame ==
    [][\A s \in Symbols, q \in ShareArgs \cup {None} :
          remove_stock(s, q) =>
              /\ UNCHANGED <<transactions, realized_profits>>
              /\ \A t \in Symbols \ {s} :
                    /\ t \in DOMAIN stocks' <=> t \in DOMAIN stocks
                    /\ t \in DOMAIN stocks => stocks'[t] = stocks[t]]_vars

\* all shares of a symbol removed whose import had realized a profit, with the
\* other symbol still held
C10_Witness ==
    /\ op = "remove_stock"
    /\ ret = "True"
    /\ \E s \in DOMAIN realized_profits :
          /\ s \notin DOMAIN stocks
          /\ Gt(Replay(transactions[s]).total_shares, Zero)
    /\ DOMAIN stocks # {}

\* C11: add_stock(symbol, q, p) on a symbol held with shares s and average cost
\* a sets shares to s+q and the average cost to (s*a + q*p)/(s+q); with p
\* absent it sets shares to s+q and leaves the average cost; on a symbol not
\* held it creates the holding (q, p).
C11_AddCase(s, q, p) ==
    /\ s \in DOMAIN stocks'
    /\ IF s \notin DOMAIN stocks
       THEN stocks'[s].shares = q /\ stocks'[s].purchase_price = p
       ELSE /\ stocks'[s].shares = Plus(stocks[s].shares, q)
            /\ p = None => stocks'[s].purchase_price = stocks[s].purchase_price
            /\ (p # None /\ stocks[s].purchase_price # None) =>
                   stocks'[s].purchase_price =
                       Div(Plus(Times(stocks[s].shares, stocks[s].purchase_price),
                                Times(q, p)),
                           Plus(stocks[s].shares, q))

C11_AddStock ==
    [][op' = "add_stock" =>
          \A s \in Symbols, q \in ShareArgs, p \in PriceArgs \cup {None} :
              add_stock(s, q, p) => C11_AddCase(s, q, p)]_vars

\* an add at a price other than the average cost of the holding it tops up
C11_Witness ==
    /\ op = "add_stock"
    /\ \E s \in DOMAIN stocks :
          /\ "remaining_cost" \notin DOMAIN stocks[s]
          /\ stocks[s].purchase_price # None
          /\ stocks[s].purchase_price[2] # 1

\* C12: add_stock changes only the holding of the given symbol: transactions,
\* realized_profits and the holding of every other symbol are unchanged.
C12_AddFrame ==
    [][op' = "add_stock" =>
          \A s \in Symbols, q \in ShareArgs, p \in PriceArgs \cup {None} :
              add_stock(s, q, p) =>
                  /\ UNCHANGED <<transactions, realized_profits>>
                  /\ \A t \in Symbols \ {s} :
                        /\ t \in DOMAIN stocks' <=> t \in DOMAIN stocks
                        /\ t \in DOMAIN stocks => stocks'[t] = stocks[t]]_vars

\* an add to one of two imported holdings, with a ledger and a realized profit
C12_Witness ==
    /\ op = "add_stock"
    /\ realized_profits # EmptyDict
    /\ transactions # EmptyDict
    /\ \E s \in DOMAIN stocks, t \in DOMAIN stocks :
          /\ "remaining_cost" \notin DOMAIN stocks[s]
          /\ "remaining_cost" \in DOMAIN stocks[t]

\* the portfolio is as a successful import of file has left it
FreshImport ==
    /\ file.readable
    /\ ImportResult(file, EmptyPortfolio) = [state |-> Current, ret |-> "True"]

Returned == ~result.raised /\ ~result.none

\* a sale the replay of txs carries out
ExecutedSell(txs, i) ==
    /\ IsSell(txs[i])
    /\ Geq(Replay(Prefix(txs, i - 1)).shares_owned, float(txs[i][3]))

\* a ledger symbol with a sale carried out and no shares at the end of replay
FullySold(s) ==
    /\ s \in DOMAIN transactions
    /\ \E i \in 1 .. Len(transactions[s]) : ExecutedSell(transactions[s], i)
    /\ Replay(transactions[s]).total_shares = Zero

Listed(by_stock, s) == {i \in 1 .. Len(by_stock) : by_stock[i].symbol = s}

\* C13: after a successful import calculate_profit_breakdown lists in by_stock
\* every symbol that is held and every symbol that was fully sold (a sale
\* carried out, no shares at the end of replay), each exactly once.
C13_BreakdownListsHeldAndSold ==
    (op = "calculate_profit_breakdown" /\ FreshImport) =>
        \A s \in Symbols :
            (s \in DOMAIN stocks \/ FullySold(s)) =>
                /\ Returned
                /\ Cardinality(Listed(result.value.by_stock, s)) = 1

\* C14: whenever calculate_profit_breakdown returns a result,
\* summary.total_profit is total_realized plus total_unrealized, and when
\* total_profit is not 0 realized_ratio and unrealized_ratio add up to 1.
C14_SummaryAddsUp ==
    (op = "calculate_profit_breakdown" /\ Returned) =>
        LET summary == result.value.summary
        IN  /\ summary.total_profit = Plus(summary.total_realized, summary.total_unrealized)
            /\ summary.total_profit # Zero =>
                  /\ {"realized_ratio", "unrealized_ratio"} \subseteq DOMAIN summary
                  /\ Plus(summary.realized_ratio, summary.unrealized_ratio) = Num(1)

\* a result with a realized and an unrealized profit, neither of them 0, whose
\* ratios are proper fractions
C14_Witness ==
    /\ op = "calculate_profit_breakdown"
    /\ Returned
    /\ result.value.summary.total_realized # Zero
    /\ result.value.summary.total_unrealized # Zero
    /\ result.value.summary.total_profit # Zero
    /\ result.value.summary.realized_ratio[2] # 1

\* the remaining cost bases, shares times average cost, of the holdings listed
CostOfListed(stocks_metrics) ==
    Sum([i \in 1 .. Len(stocks_metrics) |->
            Times(stocks[stocks_metrics[i].symbol].shares,
                  stocks[stocks_metrics[i].symbol].purchase_price)])

\* C15: after any sequence of import_from_json, add_stock and remove_stock,
\* get_performance_metrics reports total_invested equal to the sum of shares
\* times average cost over the holdings it lists in stocks_metrics, and
\* total_gain_loss equal to total_current_value minus that sum.
C15_TotalsUseRemainingCost ==
    (op = "get_performance_metrics" /\ Returned) =>
        LET metrics == result.value
            cost == CostOfListed(metrics.stocks_metrics)
        IN  /\ metrics.total_invested = cost
            /\ metrics.total_gain_loss = Minus(metrics.total_current_value, cost)

\* C16: get_portfolio_data does not raise and returns exactly one entry for
\* every held symbol the provider has a price series for, and none for a
\* symbol whose provider call fails or returns nothing, whatever the answers
\* for the other symbols; so for every reachable portfolio.
C16_SnapshotListsPricedHoldings ==
    op = "get_portfolio_data" =>
        /\ ~result.raised
        /\ \A s \in Symbols :
              Cardinality(Listed(result.value, s)) =
                  IF s \in DOMAIN stocks /\ quotes.d5[s] # NoData THEN 1 ELSE 0

\* C17: get_portfolio_data, get_performance_metrics,
\* get_historical_performance and calculate_profit_breakdown leave stocks,
\* transactions and realized_profits as they were, whatever the provider
\* answers (data, nothing or a failure) for each symbol.
C17_QueriesChangeNothing ==
    [][op' \in QueryNames => UNCHANGED <<stocks, transactions, realized_profits>>]_vars

\* a breakdown asked with two holdings, data for one of them only, and a
\* ledger and a realized profit to lose
C17_Witness ==
    /\ op = "calculate_profit_breakdown"
    /\ transactions # EmptyDict
    /\ realized_profits # EmptyDict
    /\ \E s \in DOMAIN stocks, t \in DOMAIN stocks :
          /\ quotes.d5[s] = NoData /\ quotes.y1[s] = NoData
          /\ quotes.d5[t] # NoData /\ quotes.y1[t] # NoData

\* C18: a request of the add form with the symbol or the shares missing is
\* turned down before anything is assigned: stocks, transactions and
\* realized_profits are unchanged and no holding is created.
C18_IncompleteAddIsRejected ==
    [][op' \in {"update_portfolio", "add_stock"} =>
          \A r \in Requests :
              (update_portfolio(r[1], r[2], r[3], r[4]) /\ (r[2] = "" \/ r[3] = None))
                  => UNCHANGED <<stocks, transactions, realized_profits>>]_vars

\* a request turned down while the portfolio has a holding and a ledger
C18_Witness ==
    /\ op = "update_portfolio"
    /\ stocks # EmptyDict
    /\ transactions # EmptyDict

\* an entry that is not <<action, date, shares, price>> with two numerals
\* and an action that is bought or sold in any case
Malformed(e) == EntryRaises(e) \/ ~(IsBuy(e) \/ IsSell(e))

HasMalformed(f) ==
    \E k \in 1 .. Len(f.items) :
        \E i \in 1 .. Len(f.items[k][2]) : Malformed(f.items[k][2][i])

\* C19: an import whose data holds a malformed entry returns failure and
\* imports nothing, the maps staying as they were; an entry whose action is
\* neither "bought" nor "sold" in any case is such an entry and is not skipped.
C19_MalformedEntryAborts ==
    [][(op' = "import_from_json" /\ file'.readable /\ HasMalformed(file'))
          => /\ ret' = "False"
             /\ UNCHANGED <<stocks, transactions, realized_profits>>]_vars

\* the text of a whole number, as a rebuilt record carries it
Text(x) == ToString(x[1])

\* the record rebuilt from exported rows: the rows of a symbol, last row
\* first (oldest date first), each as <<action, date, shares, price>>
RowsOfSymbol(rows, s) == SelectSeq(rows, LAMBDA r : r.Symbol = s)
Reversed(xs) == [i \in 1 .. Len(xs) |-> xs[Len(xs) + 1 - i]]
EntryOfRow(r) == <<r.Action, r.Date, Text(r.Shares), Text(r.Price)>>
Rebuilt(rows) ==
    LET keys == ListOfSet({rows[i].Symbol : i \in 1 .. Len(rows)})
    IN  Ledger([k \in 1 .. Len(keys) |->
                   <<keys[k],
                     [i \in 1 .. Len(RowsOfSymbol(rows, keys[k])) |->
                         EntryOfRow(Reversed(RowsOfSymbol(rows, keys[k]))[i])]>>])

\* how often x occurs in the list xs
Count(xs, x) == Cardinality({i \in 1 .. Len(xs) : xs[i] = x})

\* every transaction of the ledger is a row, as often as it is in the ledger
RowsCoverLedger(rows) ==
    /\ \A i \in 1 .. Len(rows) : rows[i].Symbol \in DOMAIN transactions
    /\ \A s \in DOMAIN transactions :
          LET entries == [i \in 1 .. Len(RowsOfSymbol(rows, s)) |->
                             EntryOfRow(RowsOfSymbol(rows, s)[i])]
          IN  /\ Len(entries) = Len(transactions[s])
              /\ \A i \in 1 .. Len(transactions[s]) :
                    Count(entries, transactions[s][i])
                        = Count(transactions[s], transactions[s][i])

\* C20: for a successfully imported ledger the rows of export_transactions_csv
\* hold every ledger transaction with its symbol, action, date, shares and
\* price, and the import of the record rebuilt from the rows (by symbol, the
\* exported newest-first order reversed) gives the same stocks and
\* realized_profits, also when transactions of a symbol share a date.
C20_ExportRoundTrip ==
    (op = "export_transactions_csv" /\ Returned /\ FreshImport) =>
        /\ RowsCoverLedger(result.value)
        /\ LET again == ImportResult(Rebuilt(result.value), EmptyPortfolio)
           IN  /\ again.ret = "True"
               /\ again.state.stocks = stocks
               /\ again.state.realized_profits = realized_profits

\* the purchases of a list, and the earliest date among them
Buys(txs) == SelectSeq(txs, IsBuy)
IsEarliestBuy(txs, d) ==
    /\ \E i \in 1 .. Len(Buys(txs)) : Buys(txs)[i][2] = d
    /\ \A i \in 1 .. Len(Buys(txs)) : strptime(d) <= strptime(Buys(txs)[i][2])

\* the entry of s in stocks_metrics carries the sum of the notionals of the
\* purchases of s and the earliest date of a purchase
MetricsEntryOf(stocks_metrics, s) ==
    /\ Cardinality(Listed(stocks_metrics, s)) = 1
    /\ \A i \in Listed(stocks_metrics, s) :
          /\ stocks_metrics[i].initial_investment = SumQP(Buys(transactions[s]))
          /\ IF Buys(transactions[s]) = <<>>
             THEN stocks_metrics[i].earliest_date = <<>>
             ELSE /\ Len(stocks_metrics[i].earliest_date) = 1
                  /\ IsEarliestBuy(transactions[s], stocks_metrics[i].earliest_date[1])

C22_AddsFollowReplay ==
    op = "add_stock" =>
        LET S == SymbolOf(1)
            st == Replay(Prefix(ListOf(1), adds))
            imported == ImportResult(file, EmptyPortfolio).state.stocks
        IN  /\ DOMAIN stocks = {S}
            /\ stocks[S].shares = st.shares_owned
            /\ stocks[S].purchase_price = st.running_avg_cost
            /\ adds = Len(ListOf(1)) =>
                  /\ DOMAIN imported = {S}
                  /\ stocks[S].shares = imported[S].shares
                  /\ stocks[S].purchase_price = imported[S].purchase_price

\* a list of two purchases at different prices entered whole, with an
\* average cost that is neither price
C22_Witness ==
    /\ op = "add_stock"
    /\ adds = Len(ListOf(1))
    /\ adds >= 2
    /\ stocks[SymbolOf(1)].purchase_price[2] # 1

\* C23: in every state reached by import_from_json, add_stock and remove_stock
\* with positive share arguments, every holding of stocks has shares > 0.
C23_HoldingsHaveShares ==
    \A s \in DOMAIN stocks : Gt(stocks[s].shares, Zero)

\* a removal of exactly the shares held of a symbol the ledger left a holding
\* of, after an add, with a holding of the other symbol left
C23_Witness ==
    /\ op = "remove_stock"
    /\ ret = "True"
    /\ adds > 0
    /\ DOMAIN stocks # {}
    /\ \E s \in DOMAIN transactions \ DOMAIN stocks :
          ~ListRaises(transactions[s]) /\ Gt(Replay(transactions[s]).total_shares, Zero)

\* the ledger f with every date replaced by one and the same day
SameDay(f) ==
    [f EXCEPT !.items =
        [k \in 1 .. Len(f.items) |->
            <<f.items[k][1],
              [i \in 1 .. Len(f.items[k][2]) |-> [f.items[k][2][i] EXCEPT ![2] = Day]]>>]]

\* C24: the import of a ledger gives the holdings and realized profits that
\* the import of the same entries in the same order under any other dates
\* gives (those of the ledger with all entries on one day), and a Sell that
\* exceeds the shares owned where it stands in the list is skipped also when a
\* Buy that would cover it follows in the list under an earlier date.
C24_ReplayIgnoresDates ==
    op = "import_from_json" =>
        /\ LET r == ImportResult(SameDay(file), EmptyPortfolio)
           IN  /\ ret = r.ret
               /\ stocks = r.state.stocks
               /\ realized_profits = r.state.realized_profits
        /\ \A i \in 1 .. Len(ListOf(1)) : \A j \in (i + 1) .. Len(ListOf(1)) :
              (/\ Oversell(ListOf(1), i)
               /\ IsBuy(ListOf(1)[j])
               /\ strptime(ListOf(1)[j][2]) < strptime(ListOf(1)[i][2]))
                  => Replay(Prefix(ListOf(1), i)) = Replay(Prefix(ListOf(1), i - 1))

\* an import of a Sell dated on the second day listed before the Buy of the
\* first day that would cover it: the shares bought are all held
C24_Witness ==
    /\ Imported
    /\ Len(ListOf(1)) = 2
    /\ IsSell(ListOf(1)[1]) /\ ListOf(1)[1][2] = "2024-01-03"
    /\ IsBuy(ListOf(1)[2]) /\ ListOf(1)[2][2] = "2024-01-02"
    /\ ListOf(1)[1][3] = ListOf(1)[2][3]
    /\ stocks[SymbolOf(1)].shares = float(ListOf(1)[2][3])
    /\ realized_profits = EmptyDict

\* C25 as stated: when the summary total_profit of calculate_profit_breakdown
\* is 0, the summary has the fields realized_ratio and unrealized_ratio and
\* both are 0.
C25_ZeroProfitHasZeroRatios ==
    (op = "calculate_profit_breakdown" /\ Returned
        /\ result.value.summary.total_profit = Zero) =>
            /\ {"realized_ratio", "unrealized_ratio"} \subseteq DOMAIN result.value.summary
            /\ result.value.summary.realized_ratio = Zero
            /\ result.value.summary.unrealized_ratio = Zero

\* C25: when the summary total_profit of calculate_profit_breakdown is 0 the
\* call returns, nothing having been divided by it, a summary that has neither
\* realized_ratio nor unrealized_ratio: the summary has the two fields exactly
\* when total_profit is not 0.
C25_ZeroProfitHasNoRatios ==
    (op = "calculate_profit_breakdown" /\ Returned) =>
        LET summary == result.value.summary
        IN  IF summary.total_profit = Zero
            THEN DOMAIN summary \cap {"realized_ratio", "unrealized_ratio"} = {}
            ELSE {"realized_ratio", "unrealized_ratio"} \subseteq DOMAIN summary

\* a breakdown whose realized profit and unrealized loss cancel
C25_Witness ==
    /\ op = "calculate_profit_breakdown"
    /\ Returned
    /\ result.value.summary.total_profit = Zero
    /\ result.value.summary.total_realized # Zero

\* the sales of a list
Sells(txs) == SelectSeq(txs, IsSell)

\* what the claim says of the entry e of by_stock
C26_Entry(e) ==
    LET s == e.symbol
        txs == IF s \in DOMAIN transactions THEN transactions[s] ELSE <<>>
        net == Minus(SumQP(Buys(txs)), SumQP(Sells(txs)))
        snapshot == s \in DOMAIN stocks /\ quotes.d5[s] # NoData
                        /\ stocks[s].purchase_price # None
    IN  /\ e.total_bought_value = SumQP(Buys(txs))
        /\ e.total_sold_value = SumQP(Sells(txs))
        /\ e.realized_profit =
               IF s \in DOMAIN realized_profits THEN realized_profits[s] ELSE Zero
        /\ e.unrealized_profit =
               IF snapshot
               THEN Minus(Times(quotes.d5[s], stocks[s].shares), RemainingCost(stocks[s]))
               ELSE Zero
        /\ e.total_profit = Plus(e.realized_profit, e.unrealized_profit)
        /\ e.roi = IF Gt(net, Zero) THEN Times(Div(e.total_profit, net), Num(100)) ELSE Zero

\* C26: in every result of calculate_profit_breakdown each entry of by_stock
\* has total_profit = realized_profit + unrealized_profit, unrealized_profit
\* being 0 for a symbol that is not held or has no snapshot entry, and roi =
\* total_profit / (total_bought_value - total_sold_value) * 100 when that
\* difference is positive and 0 otherwise; by_stock is in the order of
\* total_profit, largest first.
C26_ByStockEntries ==
    (op = "calculate_profit_breakdown" /\ Returned) =>
        LET by_stock == result.value.by_stock
        IN  /\ \A i \in 1 .. Len(by_stock) : C26_Entry(by_stock[i])
            /\ \A i \in 1 .. Len(by_stock) : \A j \in (i + 1) .. Len(by_stock) :
                  Geq(by_stock[i].total_profit, by_stock[j].total_profit)

\* a breakdown of a symbol sold out and a holding with sales, the two with
\* different total profits and the holding with a return that is not 0
C26_Witness ==
    /\ op = "calculate_profit_breakdown"
    /\ Returned
    /\ LET by_stock == result.value.by_stock
       IN  /\ Len(by_stock) = 2
           /\ by_stock[1].total_profit # by_stock[2].total_profit
           /\ \E i \in 1 .. 2 : by_stock[i].symbol \notin DOMAIN stocks
           /\ \E i \in 1 .. 2 :
                 /\ by_stock[i].symbol \in DOMAIN stocks
                 /\ by_stock[i].total_sold_value # Zero
                 /\ by_stock[i].unrealized_profit # Zero
                 /\ by_stock[i].roi # Zero

\* the held symbols the provider had data for, the Close of one of them on
\* a day (NaN on a day its frame has no row for), and the worth on a day of
\* the shares held now of the symbols of S
WithData == {s \in DOMAIN stocks : quotes.y1[s] # NoData}
CloseOn(s, d) ==
    IF d = LastDay THEN quotes.y1[s]
    ELSE IF quotes.past[s] = NoData THEN NaN ELSE quotes.past[s]
RECURSIVE WorthOn(_, _)
WorthOn(S, d) ==
    IF S = {} THEN Zero
    ELSE LET s == CHOOSE x \in S : TRUE
         IN  AddCell(MulCell(CloseOn(s, d), stocks[s].shares), WorthOn(S \ {s}, d))

PricedHoldings ==
    \A s \in DOMAIN stocks :
        /\ quotes.d5[s] # NoData
        /\ s \in DOMAIN transactions => quotes.y1[s] = quotes.d5[s]

\* C28: in every result of calculate_profit_breakdown, for every portfolio
\* reached by import_from_json, add_stock and remove_stock and a provider with
\* a price for every held symbol, summary.total_unrealized is the sum of
\* unrealized_profit over by_stock and summary.total_realized the sum of
\* realized_profit over by_stock, also when a held symbol was added by
\* add_stock and is not in the ledger.
C28_SummaryIsSumOfByStock ==
    (op = "calculate_profit_breakdown" /\ Returned /\ PricedHoldings) =>
        LET by_stock == result.value.by_stock
            summary == result.value.summary
        IN  /\ summary.total_unrealized =
                   Sum([i \in 1 .. Len(by_stock) |-> by_stock[i].unrealized_profit])
            /\ summary.total_realized =
                   Sum([i \in 1 .. Len(by_stock) |-> by_stock[i].realized_profit])

\* C29: in every state reached by import_from_json, failed or not, add_stock
\* and remove_stock, every key of realized_profits is a key of transactions
\* and no value of realized_profits is 0.
C29_RealizedProfitsAreOfTheLedger ==
    /\ DOMAIN realized_profits \subseteq DOMAIN transactions
    /\ \A s \in DOMAIN realized_profits : realized_profits[s] # Zero

\* a failed import that found the realized profit of a symbol no longer held
C29_Witness ==
    /\ op = "import_from_json"
    /\ ret = "False"
    /\ \E s \in DOMAIN realized_profits : s \notin DOMAIN stocks

\* C30: at every step of the replay of a list with positive shares,
\* shares_owned is not negative and equals total_shares, and a Buy made with
\* shares_owned 0, the first or the first after the position was sold out,
\* sets running_avg_cost to its price, whatever the average cost was.
C30_Step(txs, i) ==
    LET before == Replay(Prefix(txs, i - 1))
        after == Replay(Prefix(txs, i))
    IN  /\ Geq(after.shares_owned, Zero)
        /\ after.shares_owned = after.total_shares
        /\ (IsBuy(txs[i]) /\ before.shares_owned = Zero)
               => after.running_avg_cost = float(txs[i][4])

C30_ReplayCounters ==
    Imported =>
        \A k \in ItemIndex : \A i \in 1 .. Len(ListOf(k)) : C30_Step(ListOf(k), i)

\* an import that bought, sold the position out and bought again at another
\* price
C30_Witness ==
    /\ Imported
    /\ \E k \in ItemIndex :
          LET txs == ListOf(k)
          IN  /\ Len(txs) = 3
              /\ IsBuy(txs[1]) /\ IsSell(txs[2]) /\ IsBuy(txs[3])
              /\ Replay(Prefix(txs, 2)).shares_owned = Zero
              /\ txs[1][4] # txs[3][4]
              /\ stocks[SymbolOf(k)].purchase_price = float(txs[3][4])

====
